---- MODULE Spec2Model ----
(***************************************************************************)
(* Model of the resumable chunked-upload path of server.js                 *)
(* (POST /api/upload/init, POST /api/upload/chunk) together with the       *)
(* artifact table and the upload directory it writes to.                   *)
(*                                                                         *)
(* Every `await` of the chunk handler is a scheduling point: a request is  *)
(* a process whose pc names the await it is suspended at, and the steps of *)
(* different requests interleave freely (Node runs the synchronous code    *)
(* between two awaits atomically).  File contents are byte sequences; a    *)
(* write stream owns a file position of its own, so two streams opened on  *)
(* the same path overwrite each other byte by byte.                        *)
(***************************************************************************)
EXTENDS Integers, Sequences, FiniteSets, TLC

---------------------------------------------------------------------------
(* Bounds of the model *)

MaxSessions == 1
MaxReqs == 3
MaxFaults == 1
MaxGets == 1

(* Program constants, scaled down from bytes to a few bytes *)

MAX_FILE_SIZE == 5
DEFAULT_CHUNK_SIZE == 2
CHUNK_UPLOAD_LIMIT == (3 * DEFAULT_CHUNK_SIZE + 1) \div 2

SessionIds == 1..MaxSessions
Reqs == 1..MaxReqs
Gets == 1..MaxGets

(* Inputs a client may send *)
InitSizes == 0..(MAX_FILE_SIZE + 1)
NoId == 0
UploadIds == {NoId} \cup SessionIds
ChunkIndexes == -1..2
TotalChunkValues == 0..3
(* Sizes of the resource handed to parseRange, and the numbers a Range *)
(* header carries: up to one past the largest size                    *)
Sizes == 0..MAX_FILE_SIZE

RangeNumbers == 0..(MAX_FILE_SIZE + 1)

(* Ids a GET may name: those of the rows there can be, and one more *)
FileIds == 1..(MaxSessions + 1)

(* getPreviewType(mimeType) of a file row; "none" is null *)
PreviewTypes == {"none", "image", "video", "audio", "pdf", "text"}

Buffers == {<<1>>, <<2, 1>>, <<1, 1, 1, 1>>}

VARIABLES
    uploadSessions,   \* table upload_sessions: id -> row
    files,            \* table files: set of rows
    nextFileId,       \* AUTO_INCREMENT of files.id
    chunkDirs,        \* session ids whose directory CHUNKS_DIR/<id> exists
    parts,            \* <<id, index>> -> bytes of CHUNKS_DIR/<id>/<index>.part
    uploads,          \* storedName -> bytes of UPLOAD_DIR/<storedName>
    reqs,             \* the POST /api/upload/chunk requests
    lastInit,         \* the latest POST /api/upload/init and its response
    nextUploadId,     \* the next fresh upload_sessions.id
    faults,           \* database and read failures injected so far
    get,              \* the GET download / preview requests and responses
    probe             \* a call of parseRange: its arguments and its result

vars == <<uploadSessions, files, nextFileId, chunkDirs, parts, uploads, reqs,
          lastInit, nextUploadId, faults, get, probe>>

(* What the upload handlers never touch *)
reads == <<get, probe>>

---------------------------------------------------------------------------
(* Helpers *)

(* The quotient rounded down *)
Floor(a, b) == a \div b

Ceil(a, b) == (a + b - 1) \div b

Max(a, b) == IF a >= b THEN a ELSE b

Remove(f, k) == [x \in (DOMAIN f) \ {k} |-> f[x]]

Put(f, k, v) == [x \in (DOMAIN f) \cup {k} |-> IF x = k THEN v ELSE f[x]]

(* fs.WriteStream._write: `data` lands at the stream's own position `pos`  *)
(* of the file; a position past the end leaves a hole of zero bytes.       *)
WriteAt(content, pos, data) ==
    [k \in 1..Max(Len(content), pos + Len(data)) |->
        IF k > pos /\ k <= pos + Len(data) THEN data[k - pos]
        ELSE IF k <= Len(content) THEN content[k]
        ELSE 0]

(* generateStoredName: a unique suffix in front of the sanitized name; the *)
(* suffix is what makes the name unique, one per session created.          *)
generateStoredName(id) == id

(* The fields of the session row that the chunk handler reads from its *)
(* findUnique result                                                    *)
RowRead(row) == [id |-> row.id, storedName |-> row.storedName,
                 size |-> row.size, totalChunks |-> row.totalChunks]

NoRecord == [id |-> NoId, storedName |-> 0, size |-> 0, totalChunks |-> 0]

(* A chunk request: what it was sent (uploadId, index, totalChunks, size, *)
(* buffer), the handler's locals, and what it answered                   *)
IdleReq == [pc |-> "idle", uploadId |-> NoId, index |-> 0, buffer |-> <<>>,
            totalChunks |-> 0, size |-> 0,
            sessionRecord |-> NoRecord, i |-> 0, pos |-> 0, tempFiles |-> {},
            status |-> 0, error |-> "", completed |-> FALSE,
            uploadedChunks |-> 0, file |-> 0]

(* res.status(code).json({ error }) for a request that stored nothing *)
Reject(code, error, uploadId) ==
    [IdleReq EXCEPT !.pc = "done", !.status = code, !.error = error,
                    !.uploadId = uploadId]

(* A request that has answered keeps what it was sent and what it *)
(* answered; its locals are dead                                   *)
Answered(q) == [q EXCEPT !.pc = "done", !.i = 0, !.pos = 0, !.tempFiles = {}]

(* The catch block of the chunk handler: 500, whatever was done so far *)
Fail(q) == [Answered(q) EXCEPT !.status = 500,
                             !.error = "Failed to process upload chunk."]

ChunkNames(id) == {k[2] : k \in {p \in DOMAIN parts : p[1] = id}}

(* A JavaScript number as the range code meets it: an integer or NaN *)
Num(n) == [nan |-> FALSE, n |-> n]

NaN == [nan |-> TRUE, n |-> 0]

(* a - b, a + b, a < b, a > b, a >= b on numbers: NaN makes the sum and *)
(* the difference NaN and every comparison false                       *)
Minus(a, b) == IF a.nan \/ b.nan THEN NaN ELSE Num(a.n - b.n)

Plus(a, b) == IF a.nan \/ b.nan THEN NaN ELSE Num(a.n + b.n)

Less(a, b) == ~a.nan /\ ~b.nan /\ a.n < b.n

Greater(a, b) == ~a.nan /\ ~b.nan /\ a.n > b.n

AtLeast(a, b) == ~a.nan /\ ~b.nan /\ a.n >= b.n

(* One side of the '-' of a Range header after split('-'): the empty   *)
(* string, decimal digits, any other text, or undefined when the       *)
(* header has no '-'                                                   *)
Empty == [kind |-> "empty", n |-> 0]

Digits(n) == [kind |-> "digits", n |-> n]

Text == [kind |-> "text", n |-> 0]

Undefined == [kind |-> "undefined", n |-> 0]

(* Number(raw): '' is 0, digits are their value, anything else and *)
(* undefined are NaN                                               *)
Number(raw) ==
    CASE raw.kind = "empty" -> Num(0)
      [] raw.kind = "digits" -> Num(raw.n)
      [] OTHER -> NaN

(* req.headers.range: absent, or a string that starts with 'bytes=' or *)
(* does not, and the first two pieces of what follows                  *)
NoHeader == [present |-> FALSE, bytesPrefix |-> FALSE, rawStart |-> Empty,
             rawEnd |-> Undefined]

Header(bytesPrefix, rawStart, rawEnd) ==
    [present |-> TRUE, bytesPrefix |-> bytesPrefix, rawStart |-> rawStart,
     rawEnd |-> rawEnd]

(* res.json of POST /api/upload/init *)
InitResponse(code, id, chunkSize, totalChunks) ==
    [status |-> code, uploadId |-> id, chunkSize |-> chunkSize,
     totalChunks |-> totalChunks]

(* What the request body carried: a usable name or not, and Number(size) *)
InitRequest(hasName, numericSize) ==
    [hasName |-> hasName, size |-> numericSize]

NoProbe == [called |-> FALSE]

(* A GET request: what it was sent (kind, fileId, authed, rangeHeader),   *)
(* the handler's locals (storedName, ranged, the read stream's position  *)
(* and bound) and the response: status, headers, the artifact bytes      *)
(* written so far, whether the head has been flushed, whether the        *)
(* response has ended, whether the read stream has emitted 'error'       *)
IdleGet == [pc |-> "idle", kind |-> "", fileId |-> 0, authed |-> FALSE,
            rangeHeader |-> NoHeader, storedName |-> 0, ranged |-> FALSE,
            pos |-> 0, bounded |-> FALSE, end |-> 0,
            status |-> 0, error |-> "", headers |-> << >>,
            headersSent |-> FALSE, body |-> << >>, ended |-> FALSE,
            readError |-> FALSE]

---------------------------------------------------------------------------
Init ==
    /\ uploadSessions = << >>
    /\ files = {}
    /\ nextFileId = 1
    /\ chunkDirs = {}
    /\ parts = << >>
    /\ uploads = << >>
    /\ reqs = [r \in Reqs |-> IdleReq]
    /\ lastInit = InitRequest(FALSE, Num(0)) @@ InitResponse(0, NoId, 0, 0)
    /\ nextUploadId = 1
    /\ faults = 0
    /\ get = [g \in Gets |-> IdleGet]
    /\ probe = NoProbe

---------------------------------------------------------------------------
(* POST /api/upload/init *)

(* Number(size) of the body: a number, or NaN for a size that is not one *)
(* (Number.isFinite is false for NaN as for the infinities)              *)
InitNumbers == {Num(n) : n \in InitSizes} \cup {NaN}

(* The size check that lets everything but NaN through *)
InvalidSizeOnlyNaN(numericSize) == numericSize.nan

(* if (!Number.isFinite(numericSize) || numericSize <= 0) *)
InvalidSize(numericSize) == numericSize.nan \/ numericSize.n <= 0

(* if (numericSize > MAX_FILE_SIZE) *)
ExceedsLimit(numericSize) == numericSize.n > MAX_FILE_SIZE

(* The model issues init requests until MaxSessions sessions exist. *)
UploadInitUnauthorized ==
    /\ nextUploadId <= MaxSessions
    /\ lastInit' = InitRequest(FALSE, Num(0)) @@ InitResponse(401, NoId, 0, 0)
    /\ UNCHANGED <<uploadSessions, files, nextFileId, chunkDirs, parts,
                   uploads, reqs, nextUploadId, faults, reads>>

UploadInitRejected ==
    /\ nextUploadId <= MaxSessions
    /\ \E hasName \in BOOLEAN, numericSize \in InitNumbers :
          /\ ~hasName \/ InvalidSize(numericSize) \/ ExceedsLimit(numericSize)
          /\ lastInit' = InitRequest(hasName, numericSize) @@ InitResponse(
                 IF ~hasName \/ InvalidSize(numericSize) THEN 400 ELSE 413,
                 NoId, 0, 0)
    /\ UNCHANGED <<uploadSessions, files, nextFileId, chunkDirs, parts,
                   uploads, reqs, nextUploadId, faults, reads>>

UploadInit ==
    /\ nextUploadId <= MaxSessions
    /\ \E numericSize \in InitNumbers :
          /\ ~InvalidSize(numericSize)
          /\ ~ExceedsLimit(numericSize)
          /\ LET size == numericSize.n
                 chunkSize == DEFAULT_CHUNK_SIZE
                 totalChunks == Ceil(size, chunkSize)
                 id == nextUploadId
             IN /\ uploadSessions' = Put(uploadSessions, id,
                       [id |-> id, storedName |-> generateStoredName(id),
                        size |-> size, chunkSize |-> chunkSize,
                        totalChunks |-> totalChunks, uploadedChunks |-> 0])
                /\ chunkDirs' = chunkDirs \cup {id}
                /\ lastInit' = InitRequest(TRUE, numericSize) @@
                                   InitResponse(200, id, chunkSize,
                                                totalChunks)
    /\ nextUploadId' = nextUploadId + 1
    /\ UNCHANGED <<files, nextFileId, parts, uploads, reqs, faults, reads>>

---------------------------------------------------------------------------
(* POST /api/upload/chunk: arrival, validation and session lookup.         *)
(* Request slots are taken in order; a slot is one request.                *)

CanArrive(r) ==
    /\ reqs[r].pc = "idle"
    /\ \A q \in Reqs : q < r => reqs[q].pc # "idle"

Others == <<uploadSessions, files, nextFileId, chunkDirs, parts, uploads,
            lastInit, nextUploadId, faults, reads>>

(* requireAuth *)
ChunkUnauthorized(r) ==
    /\ CanArrive(r)
    /\ reqs' = [reqs EXCEPT ![r] =
                    Reject(401, "Authentication required.", NoId)]
    /\ UNCHANGED Others

(* A size limit that answers 413 after the payload was written as part 0 *)
(* of an existing session                                                *)
ChunkTooLargeStored(r) ==
    /\ CanArrive(r)
    /\ \E buffer \in Buffers, uploadId \in DOMAIN uploadSessions :
          /\ Len(buffer) > CHUNK_UPLOAD_LIMIT
          /\ parts' = Put(parts, <<uploadId, 0>>, buffer)
          /\ reqs' = [reqs EXCEPT ![r] = Reject(413, "File too large", NoId)]
    /\ UNCHANGED <<uploadSessions, files, nextFileId, chunkDirs, uploads,
                   lastInit, nextUploadId, faults, reads>>

(* chunkUpload.single('chunk') with limits.fileSize, then the error        *)
(* middleware: LIMIT_FILE_SIZE -> 413                                      *)
ChunkTooLarge(r) ==
    /\ CanArrive(r)
    /\ \E buffer \in Buffers :
          /\ Len(buffer) > CHUNK_UPLOAD_LIMIT
          /\ reqs' = [reqs EXCEPT ![r] = Reject(413, "File too large", NoId)]
    /\ UNCHANGED Others

(* The synchronous checks of the handler: uploadId, req.file, chunkIndex,  *)
(* totalChunks                                                             *)
ChunkInvalid(r) ==
    /\ CanArrive(r)
    /\ \E uploadId \in UploadIds, hasFile \in BOOLEAN,
          index \in ChunkIndexes, expectedTotal \in TotalChunkValues :
          /\ uploadId = NoId \/ ~hasFile \/ index < 0 \/ expectedTotal <= 0
          /\ reqs' = [reqs EXCEPT ![r] = Reject(400,
                 IF uploadId = NoId THEN "uploadId is required."
                 ELSE IF ~hasFile THEN "Chunk payload missing."
                 ELSE IF index < 0 THEN "Invalid chunk index."
                 ELSE "Invalid total chunk count.", uploadId)]
    /\ UNCHANGED Others

(* The metadata check without its index bound *)
MetadataMismatchNoIndexBound(sessionRecord, index, expectedTotal) ==
    expectedTotal # sessionRecord.totalChunks

(* The size check accepting every declared size *)
SizeMismatchIgnored(sessionRecord, size) == FALSE

(* if (index >= sessionRecord.totalChunks ||                  *)
(*     expectedTotal !== sessionRecord.totalChunks)           *)
MetadataMismatch(sessionRecord, index, expectedTotal) ==
    \/ index >= sessionRecord.totalChunks
    \/ expectedTotal # sessionRecord.totalChunks

(* if (!Number.isFinite(numericSize) || numericSize !== sessionRecord.size) *)
SizeMismatch(sessionRecord, size) == size # sessionRecord.size

(* findUnique and the checks against the session row *)
ChunkLookupAmong(r, ids) ==
    /\ CanArrive(r)
    /\ \E uploadId \in ids, index \in ChunkIndexes,
          expectedTotal \in TotalChunkValues, size \in InitSizes,
          buffer \in Buffers :
          /\ index >= 0
          /\ expectedTotal > 0
          /\ Len(buffer) <= CHUNK_UPLOAD_LIMIT
          /\ IF uploadId \notin DOMAIN uploadSessions
               THEN reqs' = [reqs EXCEPT ![r] =
                       Reject(404, "Upload session not found.", uploadId)]
             ELSE LET sessionRecord == uploadSessions[uploadId]
                  IN IF MetadataMismatch(sessionRecord, index, expectedTotal)
                       THEN reqs' = [reqs EXCEPT ![r] =
                               Reject(400, "Chunk metadata mismatch.",
                                      uploadId)]
                     ELSE IF SizeMismatch(sessionRecord, size)
                       THEN reqs' = [reqs EXCEPT ![r] =
                               Reject(400, "Size mismatch for upload session.",
                                      uploadId)]
                     ELSE reqs' = [reqs EXCEPT ![r] =
                             [IdleReq EXCEPT !.pc = "mkdir",
                                             !.uploadId = uploadId,
                                             !.index = index,
                                             !.buffer = buffer,
                                             !.totalChunks = expectedTotal,
                                             !.size = size,
                                             !.sessionRecord =
                                                 RowRead(sessionRecord)]]
    /\ UNCHANGED Others

(* The lookup of a request that names one of the ids of SessionIds *)
ChunkLookup(r) == ChunkLookupAmong(r, SessionIds)

---------------------------------------------------------------------------
(* POST /api/upload/chunk: the awaits after validation, one action each *)

At(r, pc) == reqs[r].pc = pc

(* await fsp.mkdir(chunkDir, { recursive: true }) *)
Mkdir(r) ==
    /\ At(r, "mkdir")
    /\ chunkDirs' = chunkDirs \cup {reqs[r].uploadId}
    /\ reqs' = [reqs EXCEPT ![r].pc = "writeFile"]
    /\ UNCHANGED <<uploadSessions, files, nextFileId, parts, uploads,
                   lastInit, nextUploadId, faults, reads>>

(* await fsp.writeFile(chunkPath, req.file.buffer) opens the part with  *)
(* flag 'w', which creates or truncates it (ENOENT when the directory   *)
(* was removed in the meantime), and then writes the buffer from        *)
(* offset 0; the two are separate file system operations, and another   *)
(* request's may come between them                                      *)
WriteFile(r) ==
    /\ At(r, "writeFile")
    /\ IF reqs[r].uploadId \in chunkDirs
         THEN /\ parts' = Put(parts, <<reqs[r].uploadId, reqs[r].index>>,
                              << >>)
              /\ reqs' = [reqs EXCEPT ![r].pc = "write"]
         ELSE /\ reqs' = [reqs EXCEPT ![r] = Fail(reqs[r])]
              /\ UNCHANGED parts
    /\ UNCHANGED <<uploadSessions, files, nextFileId, chunkDirs, uploads,
                   lastInit, nextUploadId, faults, reads>>

(* The buffer lands at offset 0 of the part as it is then *)
StoreChunk(stored, id, index, buffer) ==
    Put(stored, <<id, index>>, WriteAt(stored[<<id, index>>], 0, buffer))

(* The write of writeFile; a part unlinked since it was opened takes the *)
(* bytes with it                                                         *)
WriteData(r) ==
    /\ At(r, "write")
    /\ parts' = IF <<reqs[r].uploadId, reqs[r].index>> \in DOMAIN parts
                  THEN StoreChunk(parts, reqs[r].uploadId, reqs[r].index,
                                  reqs[r].buffer)
                ELSE parts
    /\ reqs' = [reqs EXCEPT ![r].pc = "update"]
    /\ UNCHANGED <<uploadSessions, files, nextFileId, chunkDirs, uploads,
                   lastInit, nextUploadId, faults, reads>>

(* An update that writes 1 whatever the row holds: a lost update *)
IncrementOnce(row) == [row EXCEPT !.uploadedChunks = 1]

(* data: { uploadedChunks: { increment: 1 } } *)
Increment(row) == [row EXCEPT !.uploadedChunks = @ + 1]

(* A test that takes the index before the last for the last *)
NotLastChunkEarly(index, totalChunks) == index + 2 < totalChunks

(* if (index + 1 < sessionRecord.totalChunks): not the last index *)
NotLastChunk(index, totalChunks) == index + 1 < totalChunks

(* await prisma.uploadSession.update(...), then either the completed:false *)
(* response or fs.createWriteStream(finalPath), whose open is queued        *)
Update(r) ==
    /\ At(r, "update")
    /\ LET id == reqs[r].uploadId
       IN IF id \notin DOMAIN uploadSessions
            THEN /\ reqs' = [reqs EXCEPT ![r] = Fail(reqs[r])]
                 /\ UNCHANGED uploadSessions
          ELSE LET updated == Increment(uploadSessions[id])
               IN /\ uploadSessions' = [uploadSessions EXCEPT ![id] = updated]
                  /\ IF NotLastChunk(reqs[r].index,
                                     reqs[r].sessionRecord.totalChunks)
                       THEN reqs' = [reqs EXCEPT ![r] =
                               [Answered(@) EXCEPT
                                   !.status = 200, !.completed = FALSE,
                                   !.uploadedChunks = updated.uploadedChunks]]
                     ELSE reqs' = [reqs EXCEPT ![r].pc = "open"]
    /\ UNCHANGED <<files, nextFileId, chunkDirs, parts, uploads, lastInit,
                   nextUploadId, faults, reads>>

(* The write stream opens finalPath with flag 'w': created or truncated *)
Open(r) ==
    /\ At(r, "open")
    /\ uploads' = Put(uploads, reqs[r].sessionRecord.storedName, <<>>)
    /\ reqs' = [reqs EXCEPT ![r] = [@ EXCEPT !.pc = "assemble", !.i = 0,
                                              !.pos = 0]]
    /\ UNCHANGED <<uploadSessions, files, nextFileId, chunkDirs, parts,
                   lastInit, nextUploadId, faults, reads>>

(* The assembly loop without fsp.access: a missing part is passed over *)
AssembleSkipsMissing(r) ==
    /\ At(r, "assemble")
    /\ LET q == reqs[r]
           id == q.uploadId
           name == q.sessionRecord.storedName
           data == IF <<id, q.i>> \in DOMAIN parts THEN parts[<<id, q.i>>]
                   ELSE << >>
       IN /\ uploads' = Put(uploads, name,
                            WriteAt(uploads[name], q.pos, data))
          /\ reqs' = [reqs EXCEPT ![r] =
                 [@ EXCEPT !.i = q.i + 1,
                           !.pos = q.pos + Len(data),
                           !.pc = IF q.i + 1 < q.sessionRecord.totalChunks
                                    THEN "assemble" ELSE "readdir"]]
    /\ UNCHANGED <<uploadSessions, files, nextFileId, chunkDirs, parts,
                   lastInit, nextUploadId, faults, reads>>

(* One turn of the assembly loop: fsp.access(partPath), then the part is  *)
(* piped into the write stream; after the last turn writeStream.end() and *)
(* await finished(writeStream)                                            *)
Assemble(r) ==
    /\ At(r, "assemble")
    /\ LET q == reqs[r]
           id == q.uploadId
           name == q.sessionRecord.storedName
       IN IF <<id, q.i>> \notin DOMAIN parts
            THEN /\ reqs' = [reqs EXCEPT ![r] = Fail(q)]
                 /\ UNCHANGED uploads
          ELSE /\ uploads' = Put(uploads, name,
                       WriteAt(uploads[name], q.pos, parts[<<id, q.i>>]))
               /\ reqs' = [reqs EXCEPT ![r] =
                      [@ EXCEPT !.i = q.i + 1,
                                !.pos = q.pos + Len(parts[<<id, q.i>>]),
                                !.pc = IF q.i + 1 < q.sessionRecord.totalChunks
                                         THEN "assemble" ELSE "readdir"]]
    /\ UNCHANGED <<uploadSessions, files, nextFileId, chunkDirs, parts,
                   lastInit, nextUploadId, faults, reads>>

(* const tempFiles = await fsp.readdir(chunkDir).catch(() => []) *)
Readdir(r) ==
    /\ At(r, "readdir")
    /\ reqs' = [reqs EXCEPT ![r] =
           [@ EXCEPT !.pc = "unlink",
                     !.tempFiles = IF reqs[r].uploadId \in chunkDirs
                                     THEN ChunkNames(reqs[r].uploadId)
                                   ELSE {}]]
    /\ UNCHANGED Others

(* Promise.all(unlink ...) of the files listed, then rmdir, which fails *)
(* (and is ignored) on a directory that is not empty                    *)
Unlink(r) ==
    /\ At(r, "unlink")
    /\ LET id == reqs[r].uploadId
           gone == {<<id, k>> : k \in reqs[r].tempFiles}
           left == [p \in (DOMAIN parts) \ gone |-> parts[p]]
       IN /\ parts' = left
          /\ chunkDirs' = IF \E p \in DOMAIN left : p[1] = id
                            THEN chunkDirs ELSE chunkDirs \ {id}
    /\ reqs' = [reqs EXCEPT ![r].pc = "create"]
    /\ UNCHANGED <<uploadSessions, files, nextFileId, uploads, lastInit,
                   nextUploadId, faults, reads>>

(* await prisma.file.create(...): files.stored_name is UNIQUE, a second  *)
(* row of the same name is refused and the handler's catch answers 500   *)
Create(r) ==
    /\ At(r, "create")
    /\ LET rec == reqs[r].sessionRecord
       IN IF \E f \in files : f.storedName = rec.storedName
            THEN /\ reqs' = [reqs EXCEPT ![r] = Fail(reqs[r])]
                 /\ UNCHANGED <<files, nextFileId>>
          ELSE /\ files' = files \cup
                      {[id |-> nextFileId, storedName |-> rec.storedName,
                        size |-> rec.size, isPublic |-> FALSE]}
               /\ nextFileId' = nextFileId + 1
               /\ reqs' = [reqs EXCEPT ![r] =
                      [@ EXCEPT !.pc = "delete", !.file = nextFileId]]
    /\ UNCHANGED <<uploadSessions, chunkDirs, parts, uploads, lastInit,
                   nextUploadId, faults, reads>>

(* prisma.file.create rejects because the database fails *)
CreateFails(r) ==
    /\ At(r, "create")
    /\ faults < MaxFaults
    /\ faults' = faults + 1
    /\ reqs' = [reqs EXCEPT ![r] = Fail(reqs[r])]
    /\ UNCHANGED <<uploadSessions, files, nextFileId, chunkDirs, parts,
                   uploads, lastInit, nextUploadId, reads>>

(* res.json({ completed: true, file: presentFile(createdFile) }) *)
Completed(q) == [Answered(q) EXCEPT !.status = 200, !.completed = TRUE]

(* await prisma.uploadSession.delete(...).catch(() => {}), then the *)
(* completed:true response                                          *)
Delete(r) ==
    /\ At(r, "delete")
    /\ uploadSessions' = Remove(uploadSessions, reqs[r].uploadId)
    /\ reqs' = [reqs EXCEPT ![r] = Completed(reqs[r])]
    /\ UNCHANGED <<files, nextFileId, chunkDirs, parts, uploads, lastInit,
                   nextUploadId, faults, reads>>

(* The delete rejects because the database fails; the rejection is *)
(* swallowed and the response is the same                           *)
DeleteFails(r) ==
    /\ At(r, "delete")
    /\ faults < MaxFaults
    /\ faults' = faults + 1
    /\ reqs' = [reqs EXCEPT ![r] = Completed(reqs[r])]
    /\ UNCHANGED <<uploadSessions, files, nextFileId, chunkDirs, parts,
                   uploads, lastInit, nextUploadId, reads>>

---------------------------------------------------------------------------
(* PATCH /api/files/:id/visibility *)

SetVisibility ==
    /\ \E f \in files, desiredState \in BOOLEAN :
          /\ desiredState # f.isPublic
          /\ files' = (files \ {f}) \cup
                          {[f EXCEPT !.isPublic = desiredState]}
    /\ UNCHANGED <<uploadSessions, nextFileId, chunkDirs, parts, uploads,
                   reqs, lastInit, nextUploadId, faults, reads>>

---------------------------------------------------------------------------
Next ==
    \/ UploadInitUnauthorized
    \/ UploadInitRejected
    \/ UploadInit
    \/ \E r \in Reqs : ChunkUnauthorized(r)
    \/ \E r \in Reqs : ChunkTooLarge(r)
    \/ \E r \in Reqs : ChunkInvalid(r)
    \/ \E r \in Reqs : ChunkLookup(r)
    \/ \E r \in Reqs : Mkdir(r)
    \/ \E r \in Reqs : WriteFile(r)
    \/ \E r \in Reqs : WriteData(r)
    \/ \E r \in Reqs : Update(r)
    \/ \E r \in Reqs : Open(r)
    \/ \E r \in Reqs : Assemble(r)
    \/ \E r \in Reqs : Readdir(r)
    \/ \E r \in Reqs : Unlink(r)
    \/ \E r \in Reqs : Create(r)
    \/ \E r \in Reqs : CreateFails(r)
    \/ \E r \in Reqs : Delete(r)
    \/ \E r \in Reqs : DeleteFails(r)
    \/ SetVisibility

Spec == Init /\ [][Next]_vars

---------------------------------------------------------------------------
(* parseRange(rangeHeader, size) *)

Null == [range |-> FALSE, start |-> Num(0), end |-> Num(0), size |-> 0]

parseRange(rangeHeader, size) ==
    IF ~rangeHeader.present \/ ~rangeHeader.bytesPrefix THEN Null
    ELSE LET start0 == Number(rangeHeader.rawStart)
             end0 == Number(rangeHeader.rawEnd)
             start == IF start0.nan THEN Minus(Num(size), end0) ELSE start0
             end1 == IF start0.nan THEN Num(size - 1) ELSE end0
             end == IF end1.nan \/ AtLeast(end1, Num(size))
                      THEN Num(size - 1) ELSE end1
         IN IF \/ Less(start, Num(0))
               \/ Greater(start, end)
               \/ AtLeast(end, Num(size))
              THEN Null
            ELSE [range |-> TRUE, start |-> start, end |-> end,
                  size |-> size]

StartTokens == {Empty, Text} \cup {Digits(n) : n \in RangeNumbers}

EndTokens == StartTokens \cup {Undefined}

(* A header that does not start with 'bytes=': its pieces are never *)
(* looked at                                                        *)
OtherUnit == Header(FALSE, Text, Undefined)

RangeHeaders ==
    {NoHeader, OtherUnit} \cup
        {Header(TRUE, rawStart, rawEnd) :
            rawStart \in StartTokens, rawEnd \in EndTokens}

(* One call of parseRange on a header and a size *)
ParseRangeCall ==
    /\ \E rangeHeader \in RangeHeaders, size \in Sizes :
          probe' = [called |-> TRUE, rangeHeader |-> rangeHeader,
                    size |-> size,
                    result |-> parseRange(rangeHeader, size)]
    /\ UNCHANGED <<uploadSessions, files, nextFileId, chunkDirs, parts,
                   uploads, reqs, lastInit, nextUploadId, faults, get>>

NextRange == ParseRangeCall

SpecRange == Init /\ [][NextRange]_vars

---------------------------------------------------------------------------
(* GET /api/files/:id/download and GET /api/files/:id/preview *)

(* setAttachmentHeaders without the range length's + 1 *)
setAttachmentHeadersShort(res, dataLength, range) ==
    LET accept == Put(res.headers, "Accept-Ranges", "bytes")
    IN IF range.range
         THEN [res EXCEPT !.status = 206,
                          !.headers = Put(Put(accept, "Content-Range",
                                   <<range.start, range.end, range.size>>),
                              "Content-Length",
                              Minus(range.end, range.start))]
       ELSE [res EXCEPT !.headers =
                  Put(accept, "Content-Length", Num(dataLength))]

setAttachmentHeaders(res, dataLength, range) ==
    LET accept == Put(res.headers, "Accept-Ranges", "bytes")
    IN IF range.range
         THEN [res EXCEPT !.status = 206,
                          !.headers = Put(Put(accept, "Content-Range",
                                   <<range.start, range.end, range.size>>),
                              "Content-Length",
                              Plus(Minus(range.end, range.start), Num(1)))]
       ELSE [res EXCEPT !.headers =
                  Put(accept, "Content-Length", Num(dataLength))]

(* streamWithRange answering 206 for every header that names a first byte *)
streamWithRangeAlwaysPartial(res, size, range) ==
    LET accept == Put(res.headers, "Accept-Ranges", "bytes")
    IN IF range.range \/ res.rangeHeader.rawStart.kind = "digits"
         THEN [res EXCEPT !.status = 206,
                          !.headers = Put(Put(accept, "Content-Range",
                                   <<range.start, range.end, range.size>>),
                              "Content-Length",
                              Plus(Minus(range.end, range.start), Num(1)))]
       ELSE [res EXCEPT !.headers = Put(accept, "Content-Length", Num(size))]

(* The headers and status streamWithRange sets before it opens the file *)
streamWithRange(res, size, range) ==
    LET accept == Put(res.headers, "Accept-Ranges", "bytes")
    IN IF range.range
         THEN [res EXCEPT !.status = 206,
                          !.headers = Put(Put(accept, "Content-Range",
                                   <<range.start, range.end, range.size>>),
                              "Content-Length",
                              Plus(Minus(range.end, range.start), Num(1)))]
       ELSE [res EXCEPT !.headers = Put(accept, "Content-Length", Num(size))]

(* res.status(code).json({ error }): the head and the error body go out  *)
(* and the response ends; json sets its own Content-Length               *)
Json(res, code, error) ==
    [res EXCEPT !.pc = "done", !.status = code, !.error = error,
                !.headers = Remove(@, "Content-Length"),
                !.headersSent = TRUE, !.ended = TRUE]

(* The auth check that lets every request through *)
ForbiddenNever(file, authed) == FALSE

(* if (!file.isPublic && (!req.session || !req.session.userId)) *)
Forbidden(file, authed) == ~file.isPublic /\ ~authed

(* The request as it arrives; 200 is the status of a response until set *)
NewGet(kind, fileId, authed, rangeHeader) ==
    [IdleGet EXCEPT !.pc = "lookup", !.kind = kind, !.fileId = fileId,
                    !.authed = authed, !.rangeHeader = rangeHeader,
                    !.status = 200]

(* Request slots are taken in order; a slot is one request. *)
GetCanArrive(g) ==
    /\ get[g].pc = "idle"
    /\ \A h \in Gets : h < g => get[h].pc # "idle"

GetOthers == <<uploadSessions, files, nextFileId, chunkDirs, parts, uploads,
               reqs, lastInit, nextUploadId, probe>>

(* findUnique and the checks on the row *)
DownloadLookup(g) ==
    /\ GetCanArrive(g)
    /\ \E fileId \in FileIds, authed \in BOOLEAN,
          rangeHeader \in RangeHeaders :
          LET req == NewGet("download", fileId, authed, rangeHeader)
              found == {f \in files : f.id = fileId}
              file == CHOOSE f \in found : TRUE
              res == IF found = {} THEN Json(req, 404, "File not found.")
                     ELSE IF Forbidden(file, authed)
                       THEN Json(req, 401, "Authentication required.")
                     ELSE [req EXCEPT !.pc = "stat",
                                      !.storedName = file.storedName,
                                      !.ranged = TRUE]
          IN get' = [get EXCEPT ![g] = res]
    /\ UNCHANGED <<GetOthers, faults>>

PreviewLookup(g) ==
    /\ GetCanArrive(g)
    /\ \E fileId \in FileIds, authed \in BOOLEAN,
          rangeHeader \in RangeHeaders, previewType \in PreviewTypes :
          LET req == NewGet("preview", fileId, authed, rangeHeader)
              found == {f \in files : f.id = fileId}
              file == CHOOSE f \in found : TRUE
              res == IF found = {} THEN Json(req, 404, "File not found.")
                     ELSE IF Forbidden(file, authed)
                       THEN Json(req, 401, "Authentication required.")
                     ELSE IF previewType = "none"
                       THEN Json(req, 415,
                                 "Preview not available for this file.")
                     ELSE IF previewType \in {"image", "text"}
                       THEN [req EXCEPT !.pc = "access",
                                        !.storedName = file.storedName]
                     ELSE [req EXCEPT !.pc = "stat",
                                      !.storedName = file.storedName,
                                      !.ranged = TRUE]
          IN get' = [get EXCEPT ![g] = res]
    /\ UNCHANGED <<GetOthers, faults>>

(* image and text previews: fsp.access, then the whole file is piped *)
Access(g) ==
    /\ get[g].pc = "access"
    /\ get' = [get EXCEPT ![g] =
                  IF get[g].storedName \notin DOMAIN uploads
                    THEN Json(@, 404, "File not found.")
                  ELSE [@ EXCEPT !.pc = "stream"]]
    /\ UNCHANGED <<GetOthers, faults>>

(* fsp.access and fsp.stat, parseRange, the headers, createReadStream;   *)
(* createReadStream throws on a start that is not an integer, which the  *)
(* catch block answers                                                   *)
Stat(g) ==
    /\ get[g].pc = "stat"
    /\ LET size == Len(uploads[get[g].storedName])
           range == parseRange(get[g].rangeHeader, size)
           res == IF get[g].kind = "download"
                    THEN setAttachmentHeaders(get[g], size, range)
                  ELSE streamWithRange(get[g], size, range)
       IN get' = [get EXCEPT ![g] =
                     IF get[g].storedName \notin DOMAIN uploads
                       THEN Json(@, 404, "File not found.")
                     ELSE IF range.range /\ range.start.nan
                       THEN Json(res, 500,
                                 IF get[g].kind = "download"
                                   THEN "Failed to download file."
                                 ELSE "Failed to preview file.")
                     ELSE IF range.range
                       THEN [res EXCEPT !.pc = "stream",
                                        !.pos = range.start.n,
                                        !.bounded = TRUE,
                                        !.end = range.end.n]
                     ELSE [res EXCEPT !.pc = "stream"]]
    /\ UNCHANGED <<GetOthers, faults>>

(* The offset of the last byte the read stream will deliver *)
LastOffset(g) ==
    LET size == Len(uploads[get[g].storedName])
    IN IF get[g].bounded /\ get[g].end < size - 1 THEN get[g].end
       ELSE size - 1

(* stream.pipe(res), 'data': the next byte of the file is written to the *)
(* response; the first write flushes the head                            *)
Data(g) ==
    /\ get[g].pc = "stream"
    /\ get[g].storedName \in DOMAIN uploads
    /\ get[g].pos <= LastOffset(g)
    /\ get' = [get EXCEPT ![g] =
                  [@ EXCEPT !.pos = @ + 1,
                            !.body = Append(@, uploads[get[g].storedName]
                                                      [get[g].pos + 1]),
                            !.headersSent = TRUE]]
    /\ UNCHANGED <<GetOthers, faults>>

(* stream.pipe(res), 'end': res.end() *)
End(g) ==
    /\ get[g].pc = "stream"
    /\ get[g].storedName \in DOMAIN uploads
    /\ get[g].pos > LastOffset(g)
    /\ get' = [get EXCEPT ![g] =
                  [@ EXCEPT !.pc = "done", !.headersSent = TRUE,
                            !.ended = TRUE]]
    /\ UNCHANGED <<GetOthers, faults>>

(* The read stream emits 'error' (the open or a read fails): the handler *)
(* answers 500 if the head has not been sent and does nothing otherwise; *)
(* pipe does not end its destination when its source fails               *)
ReadError(g) ==
    /\ get[g].pc = "stream"
    /\ faults < MaxFaults
    /\ faults' = faults + 1
    /\ get' = [get EXCEPT ![g] =
                  IF ~get[g].headersSent
                    THEN [Json(@, 500,
                               IF get[g].kind = "download"
                                 THEN "Failed to download file."
                               ELSE IF get[g].ranged THEN ""
                               ELSE "Failed to stream preview.")
                            EXCEPT !.readError = TRUE]
                  ELSE [@ EXCEPT !.pc = "done", !.readError = TRUE]]
    /\ UNCHANGED GetOthers

(* The client of public/app.js: one init, then the chunks of the file in *)
(* index order with the metadata the init answered, each sent after the  *)
(* answer to the one before, until one answers completed or fails        *)
StartChunkedUpload ==
    \A r \in Reqs :
        (reqs[r].pc = "idle" /\ reqs'[r].pc # "idle") =>
            /\ \A q \in Reqs \ {r} :
                  reqs[q].pc = "idle" \/
                     (/\ reqs[q].pc = "done" /\ reqs[q].status = 200
                      /\ ~reqs[q].completed)
            /\ reqs'[r].pc = "mkdir"
            /\ reqs'[r].index =
                  Cardinality({q \in Reqs : reqs[q].pc = "done"})
            /\ LET start == reqs'[r].index * lastInit.chunkSize
                   rest == lastInit.size.n - start
               IN Len(reqs'[r].buffer) =
                     IF rest < lastInit.chunkSize THEN rest
                     ELSE lastInit.chunkSize

NextGet ==
    \/ /\ \/ UploadInit
          \/ \E r \in Reqs : ChunkLookup(r)
          \/ \E r \in Reqs : Mkdir(r)
          \/ \E r \in Reqs : WriteFile(r)
          \/ \E r \in Reqs : WriteData(r)
          \/ \E r \in Reqs : Update(r)
          \/ \E r \in Reqs : Open(r)
          \/ \E r \in Reqs : Assemble(r)
          \/ \E r \in Reqs : Readdir(r)
          \/ \E r \in Reqs : Unlink(r)
          \/ \E r \in Reqs : Create(r)
          \/ \E r \in Reqs : Delete(r)
       /\ StartChunkedUpload
    \/ SetVisibility
    \/ \E g \in Gets : DownloadLookup(g)
    \/ \E g \in Gets : PreviewLookup(g)
    \/ \E g \in Gets : Access(g)
    \/ \E g \in Gets : Stat(g)
    \/ \E g \in Gets : Data(g)
    \/ \E g \in Gets : End(g)
    \/ \E g \in Gets : ReadError(g)

SpecGet == Init /\ [][NextGet]_vars

---------------------------------------------------------------------------
(* Several upload sessions: the init handler with the stored name as   *)
(* generateStoredName makes it, and the chunk requests of all sessions *)

(* Sessions created in this specification, and the ids they get *)
MaxInits == 2

InitIds == 1..MaxInits

(* What generateStoredName can return: Date.now(), a random number below *)
(* 1e9 and the sanitized name; nothing in it depends on the names        *)
(* returned before                                                       *)
StoredNames == 1..2

(* Sizes of the uploads: one chunk, and two chunks *)
NamedSizes == {1, DEFAULT_CHUNK_SIZE + 1}

(* CONSTRAINT upload_sessions_stored_name_key UNIQUE (stored_name) *)
StoredNameTaken(storedName) ==
    \E id \in DOMAIN uploadSessions :
        uploadSessions[id].storedName = storedName

(* The init handler: generateStoredName, uploadSession.create, mkdir *)
UploadInitNamed ==
    /\ nextUploadId <= MaxInits
    /\ \E size \in NamedSizes, storedName \in StoredNames :
          /\ ~StoredNameTaken(storedName)
          /\ LET chunkSize == DEFAULT_CHUNK_SIZE
                 totalChunks == Ceil(size, chunkSize)
                 id == nextUploadId
             IN /\ uploadSessions' = Put(uploadSessions, id,
                       [id |-> id, storedName |-> storedName,
                        size |-> size, chunkSize |-> chunkSize,
                        totalChunks |-> totalChunks, uploadedChunks |-> 0])
                /\ chunkDirs' = chunkDirs \cup {id}
                /\ lastInit' = InitRequest(TRUE, Num(size)) @@
                                   InitResponse(200, id, chunkSize,
                                                totalChunks)
    /\ nextUploadId' = nextUploadId + 1
    /\ UNCHANGED <<files, nextFileId, parts, uploads, reqs, faults, reads>>

(* uploadSession.create rejects on the unique index: the catch answers *)
(* 500 and nothing was created                                         *)
UploadInitNameTaken ==
    /\ nextUploadId <= MaxInits
    /\ \E size \in NamedSizes, storedName \in StoredNames :
          /\ StoredNameTaken(storedName)
          /\ lastInit' = InitRequest(TRUE, Num(size)) @@
                             InitResponse(500, NoId, 0, 0)
    /\ UNCHANGED <<uploadSessions, files, nextFileId, chunkDirs, parts,
                   uploads, reqs, nextUploadId, faults, reads>>

(* Clients that send the metadata their init answered, and payloads of *)
(* one byte: the requests of this specification are those that pass    *)
(* the checks                                                          *)
PassesChecks ==
    \A r \in Reqs :
        (reqs[r].pc = "idle" /\ reqs'[r].pc # "idle") =>
            /\ reqs'[r].pc = "mkdir"
            /\ Len(reqs'[r].buffer) = 1

NextSessions ==
    \/ UploadInitNamed
    \/ UploadInitNameTaken
    \/ (\E r \in Reqs : ChunkLookupAmong(r, InitIds)) /\ PassesChecks
    \/ \E r \in Reqs : Mkdir(r)
    \/ \E r \in Reqs : WriteFile(r)
    \/ \E r \in Reqs : WriteData(r)
    \/ \E r \in Reqs : Update(r)
    \/ \E r \in Reqs : Open(r)
    \/ \E r \in Reqs : Assemble(r)
    \/ \E r \in Reqs : Readdir(r)
    \/ \E r \in Reqs : Unlink(r)
    \/ \E r \in Reqs : Create(r)
    \/ \E r \in Reqs : Delete(r)

SpecSessions == Init /\ [][NextSessions]_vars

---------------------------------------------------------------------------
(* Failure of the write stream of the final file.                        *)
(* fs.createWriteStream(finalPath) gets no 'error' listener from the      *)
(* handler; readStream.pipe(writeStream) adds one that unpipes and emits  *)
(* the error again when it is the only listener; finished(writeStream)    *)
(* is awaited only after the loop.                                        *)

(* The process ends: the requests in flight get no response *)
ProcessExit == [q \in Reqs |->
                   IF reqs[q].pc \in {"idle", "done"} THEN reqs[q]
                   ELSE [reqs[q] EXCEPT !.pc = "lost"]]

(* The write stream emits 'error' (the open or a write fails) while the *)
(* handler is in the assembly loop: the event has no handler, the       *)
(* exception is uncaught                                                *)
WriteStreamError(r) ==
    /\ At(r, "assemble")
    /\ faults < MaxFaults
    /\ faults' = faults + 1
    /\ reqs' = ProcessExit
    /\ UNCHANGED <<uploadSessions, files, nextFileId, chunkDirs, parts,
                   uploads, lastInit, nextUploadId, reads>>

(* The write stream fails after the last part was piped, under      *)
(* await finished(writeStream): the promise rejects, the catch       *)
(* answers 500; the bytes of the last part have reached the file or  *)
(* have not                                                          *)
FinishedRejects(r) ==
    /\ At(r, "assemble")
    /\ reqs[r].i + 1 = reqs[r].sessionRecord.totalChunks
    /\ <<reqs[r].uploadId, reqs[r].i>> \in DOMAIN parts
    /\ faults < MaxFaults
    /\ faults' = faults + 1
    /\ LET name == reqs[r].sessionRecord.storedName
       IN \E written \in {uploads[name],
                          WriteAt(uploads[name], reqs[r].pos,
                                  parts[<<reqs[r].uploadId, reqs[r].i>>])} :
             uploads' = Put(uploads, name, written)
    /\ reqs' = [reqs EXCEPT ![r] = Fail(reqs[r])]
    /\ UNCHANGED <<uploadSessions, files, nextFileId, chunkDirs, parts,
                   lastInit, nextUploadId, reads>>

(* The awaits of request r coming back, with a value or an error *)
Proceed(r) ==
    \/ Mkdir(r)
    \/ WriteFile(r)
    \/ WriteData(r)
    \/ Update(r)
    \/ Open(r)
    \/ Assemble(r)
    \/ Readdir(r)
    \/ Unlink(r)
    \/ Create(r)
    \/ CreateFails(r)
    \/ Delete(r)
    \/ DeleteFails(r)
    \/ WriteStreamError(r)
    \/ FinishedRejects(r)

NextStream ==
    \/ UploadInit
    \/ (\E r \in Reqs : ChunkLookup(r)) /\ PassesChecks
    \/ \E r \in Reqs : Proceed(r)

(* Every file system and database operation eventually completes or *)
(* fails                                                            *)
SpecStream ==
    Init /\ [][NextStream]_vars /\ \A r \in Reqs : WF_vars(Proceed(r))

---------------------------------------------------------------------------
(* Vocabulary of the properties *)

(* r passed validation and the session lookup *)
Accepted(r) == reqs[r].sessionRecord.id # NoId

AcceptedFor(id) == {r \in Reqs : Accepted(r) /\ reqs[r].uploadId = id}

InFlight(r) == reqs[r].pc \notin {"idle", "done"}

(* r carries the index totalChunks-1 of its session *)
LastIndex(r) ==
    Accepted(r) /\ reqs[r].index + 1 = reqs[r].sessionRecord.totalChunks

(* r answered completed:true *)
Finalized(r) == reqs[r].pc = "done" /\ reqs[r].completed

(* r has opened (truncated) its final file and not yet answered *)
HasOpened(r) ==
    reqs[r].pc \in {"assemble", "readdir", "unlink", "create", "delete"}

(* Every index of the session has a part on disk *)
Covered(stored, id, totalChunks) ==
    \A k \in 0..(totalChunks - 1) : <<id, k>> \in DOMAIN stored

RowsOf(table, storedName) == {f \in table : f.storedName = storedName}

RECURSIVE ConcatInOrder(_, _, _)
(* The buffers sent to session id at the indices k..totalChunks-1, in *)
(* index order, taken from the accepted requests                       *)
ConcatInOrder(id, k, totalChunks) ==
    IF k >= totalChunks THEN <<>>
    ELSE LET r == CHOOSE q \in AcceptedFor(id) : reqs[q].index = k
         IN reqs[r].buffer \o ConcatInOrder(id, k + 1, totalChunks)

(* Each index of the session was sent by exactly one accepted request, *)
(* and every one of those requests has answered                        *)
EachIndexOnce(id) ==
    /\ AcceptedFor(id) # {}
    /\ \A r \in AcceptedFor(id) : reqs[r].pc = "done"
    /\ LET total == (reqs[CHOOSE r \in AcceptedFor(id) : TRUE]).sessionRecord
                        .totalChunks
       IN /\ Cardinality(AcceptedFor(id)) = total
          /\ \A k \in 0..(total - 1) :
                \E r \in AcceptedFor(id) : reqs[r].index = k

---------------------------------------------------------------------------
(* C1: when every index 0..totalChunks-1 of a session has been submitted  *)
(* exactly once, in any order, and all those requests have answered with  *)
(* no database failure, exactly one of them answered completed:true, and  *)
(* exactly one artifact exists whose stored bytes are the submitted       *)
(* chunks concatenated in index order.                                    *)
C1_AnyOrderFinalizesOnce ==
    \A id \in SessionIds :
        (faults = 0 /\ EachIndexOnce(id)) =>
            LET acc == AcceptedFor(id)
                rec == (reqs[CHOOSE r \in acc : TRUE]).sessionRecord
            IN /\ Cardinality({r \in acc : Finalized(r)}) = 1
               /\ Cardinality(RowsOf(files, rec.storedName)) = 1
               /\ rec.storedName \in DOMAIN uploads
               /\ uploads[rec.storedName] =
                      ConcatInOrder(id, 0, rec.totalChunks)

(* C2: once every chunk request of a live session has answered 200, the *)
(* session's uploadedChunks equals the number of distinct indices sent. *)
C2_CountIsDistinctIndices ==
    \A id \in DOMAIN uploadSessions :
        (\A r \in AcceptedFor(id) :
             reqs[r].pc = "done" /\ reqs[r].status = 200) =>
            uploadSessions[id].uploadedChunks =
                Cardinality({reqs[r].index : r \in AcceptedFor(id)})

(* C3: the uploadedChunks of every live session lies in 0..totalChunks. *)
C3_CountWithinTotal ==
    \A id \in DOMAIN uploadSessions :
        /\ uploadSessions[id].uploadedChunks >= 0
        /\ uploadSessions[id].uploadedChunks <= uploadSessions[id].totalChunks

(* C4: no two requests of the same session have both opened (truncated) *)
(* the final file and are both still inside the finalize body.          *)
C4_FinalizeNotReentrant ==
    \A r1, r2 \in Reqs :
        (r1 # r2 /\ HasOpened(r1) /\ HasOpened(r2)) =>
            reqs[r1].uploadId # reqs[r2].uploadId

(* r answers in this step *)
Answers(r) == InFlight(r) /\ reqs'[r].pc = "done"

(* C5: when a request for the last index answers while another request *)
(* of the same session has already answered completed:true (they       *)
(* raced), it answers 200 completed:true with the same artifact, and   *)
(* the session has exactly one artifact row.                           *)
C5_LoserGetsArtifact ==
    [][\A r1, r2 \in Reqs :
          (/\ r1 # r2
           /\ faults' = 0
           /\ Finalized(r1)
           /\ LastIndex(r2)
           /\ reqs[r2].uploadId = reqs[r1].uploadId
           /\ Answers(r2))
          => /\ reqs'[r2].status = 200
             /\ reqs'[r2].completed
             /\ reqs'[r2].file = reqs[r1].file
             /\ Cardinality(RowsOf(files',
                                   reqs[r2].sessionRecord.storedName)) = 1
      ]_vars

(* C6: a chunk request that answers 200 while no other request is in     *)
(* flight says completed:true exactly when the stored parts cover every  *)
(* index: it does not answer completed:false with every index stored,    *)
(* and it answers completed:true only when every index was submitted.    *)
C6_CompleteIffCovered ==
    [][\A r \in Reqs :
          (/\ Answers(r)
           /\ reqs'[r].status = 200
           /\ \A q \in Reqs \ {r} : ~InFlight(q))
          => /\ ~reqs'[r].completed =>
                   ~Covered(parts', reqs[r].uploadId,
                            reqs[r].sessionRecord.totalChunks)
             /\ reqs'[r].completed =>
                   \A k \in 0..(reqs[r].sessionRecord.totalChunks - 1) :
                       \E q \in AcceptedFor(reqs[r].uploadId) :
                           reqs[q].index = k
      ]_vars

(* C7: when the assembly loop fails (a part is missing), the error is    *)
(* answered with the final file removed and with the session row and the *)
(* stored parts left as they are.                                        *)
C7_FailedFinalizeCleansUp ==
    [][\A r \in Reqs :
          (reqs[r].pc = "assemble" /\ Answers(r) /\ reqs'[r].status = 500)
          => /\ reqs[r].sessionRecord.storedName \notin DOMAIN uploads'
             /\ reqs[r].uploadId \in DOMAIN uploadSessions'
             /\ UNCHANGED <<uploadSessions, parts>>
      ]_vars

(* C8: when creating the artifact row fails, the error is answered with *)
(* no final file left that has no artifact row.                         *)
C8_FailedCreateRemovesFile ==
    [][\A r \in Reqs :
          (reqs[r].pc = "create" /\ Answers(r) /\ reqs'[r].status = 500)
          => (reqs[r].sessionRecord.storedName \in DOMAIN uploads'
                 => RowsOf(files', reqs[r].sessionRecord.storedName) # {})
      ]_vars

(* C9: once a request has answered completed:true, its session row is   *)
(* gone and at most one request of the session has answered so; a chunk *)
(* request arriving afterwards for that session is refused (404, or 400 *)
(* when it is malformed) without being accepted, and no request opens   *)
(* the session's final file again.                                      *)
C9_FinalizedOnce ==
    /\ [](\A r \in Reqs :
             Finalized(r) =>
                 /\ reqs[r].uploadId \notin DOMAIN uploadSessions
                 /\ \A q \in Reqs :
                       (Finalized(q) /\ reqs[q].uploadId = reqs[r].uploadId)
                           => q = r)
    /\ [][\A r, q \in Reqs :
             (Finalized(q) /\ reqs'[r].uploadId = reqs[q].uploadId)
             => /\ (reqs[r].pc = "idle" /\ reqs'[r].pc # "idle")
                     => (reqs'[r].pc = "done" /\ reqs'[r].status \in {400, 404})
                /\ ~(reqs[r].pc = "open" /\ reqs'[r].pc = "assemble")
         ]_vars

(* C10: while an artifact row exists, the bytes of its stored file do *)
(* not change.                                                        *)
C10_ArtifactImmutable ==
    [][\A f \in files :
          ((\E g \in files' : g.id = f.id) /\ f.storedName \in DOMAIN uploads)
          => /\ f.storedName \in DOMAIN uploads'
             /\ uploads'[f.storedName] = uploads[f.storedName]
      ]_vars

---------------------------------------------------------------------------
(* The metadata checks of the chunk handler *)

MismatchErrors == {"Chunk metadata mismatch.",
                   "Size mismatch for upload session."}

(* C11: a chunk request whose declared totalChunks differs from the     *)
(* session row's, or whose declared size differs from the session row's *)
(* (the other field matching or not), is not accepted: every request    *)
(* that got past the checks declared the row's totalChunks and the      *)
(* row's size, and the two mismatch answers are 400s that stored        *)
(* nothing.                                                             *)
C11_MismatchRejected ==
    \A r \in Reqs :
        /\ Accepted(r) =>
              /\ reqs[r].totalChunks = reqs[r].sessionRecord.totalChunks
              /\ reqs[r].size = reqs[r].sessionRecord.size
        /\ reqs[r].error \in MismatchErrors =>
              /\ reqs[r].pc = "done"
              /\ reqs[r].status = 400
              /\ ~Accepted(r)

(* Both rejections have happened: one request refused for its           *)
(* totalChunks (or index), another for its size alone                   *)
C11_Witness ==
    \E r, q \in Reqs :
        /\ reqs[r].error = "Chunk metadata mismatch."
        /\ reqs[q].error = "Size mismatch for upload session."
        /\ \E a \in Reqs : Accepted(a) /\ reqs[a].status = 200

(* C12: a chunk request for an id with no session row is answered 404   *)
(* 'Upload session not found.' (a malformed one 400, before the lookup) *)
(* and is not accepted; every accepted request has its index in         *)
(* 0..totalChunks-1, and every stored part was written by an accepted   *)
(* request, so every stored part's index is in 0..totalChunks-1.        *)
C12_StoredIndexInRange ==
    /\ [](/\ \A r \in Reqs :
               Accepted(r) =>
                   reqs[r].index \in
                       0..(reqs[r].sessionRecord.totalChunks - 1)
          /\ \A p \in DOMAIN parts :
                \E r \in Reqs : /\ Accepted(r)
                                /\ reqs[r].uploadId = p[1]
                                /\ reqs[r].index = p[2])
    /\ [][\A r \in Reqs :
             (/\ reqs[r].pc = "idle" /\ reqs'[r].pc # "idle"
              /\ reqs'[r].uploadId # NoId
              /\ reqs'[r].uploadId \notin DOMAIN uploadSessions
              /\ reqs'[r].status # 400)
             => /\ reqs'[r].pc = "done"
                /\ reqs'[r].status = 404
                /\ reqs'[r].error = "Upload session not found."
                /\ UNCHANGED <<parts, uploadSessions>>
         ]_vars

(* A part is stored, one request was refused for an unknown session and *)
(* another for an index at or past totalChunks                          *)
C12_Witness ==
    /\ DOMAIN parts # {}
    /\ \E r \in Reqs : reqs[r].status = 404
    /\ \E r \in Reqs : /\ reqs[r].error = "Chunk metadata mismatch."
                        /\ reqs[r].uploadId \in DOMAIN uploadSessions

---------------------------------------------------------------------------
(* The range calculator *)

(* C13: for every Range header and every size, parseRange returns no *)
(* range, or a range whose start and end are integers with           *)
(* 0 <= start <= end <= size-1.                                       *)
C13_RangeWithinResource ==
    (probe.called /\ probe.result.range) =>
        /\ ~probe.result.start.nan
        /\ ~probe.result.end.nan
        /\ 0 <= probe.result.start.n
        /\ probe.result.start.n <= probe.result.end.n
        /\ probe.result.end.n <= probe.size - 1

(* C14: for the header 'bytes=-N' (empty start token) and a size S with *)
(* 1 <= N <= S, parseRange returns start = S-N and end = S-1.           *)
C14_SuffixRange ==
    (/\ probe.called
     /\ probe.rangeHeader.present /\ probe.rangeHeader.bytesPrefix
     /\ probe.rangeHeader.rawStart = Empty
     /\ probe.rangeHeader.rawEnd.kind = "digits"
     /\ 1 <= probe.rangeHeader.rawEnd.n
     /\ probe.rangeHeader.rawEnd.n <= probe.size)
    => /\ probe.result.range
       /\ probe.result.start = Num(probe.size - probe.rangeHeader.rawEnd.n)
       /\ probe.result.end = Num(probe.size - 1)

---------------------------------------------------------------------------
(* Serving an artifact *)

(* The bytes of the file the request g streams *)
Content(g) == uploads[get[g].storedName]

IsPrefix(s, t) == Len(s) <= Len(t) /\ s = SubSeq(t, 1, Len(s))

(* g is a download or a range-capable preview that got past the lookup *)
(* and the stat of a file that exists, and no read of it has failed    *)
Serving(g) ==
    /\ get[g].ranged
    /\ get[g].pc \in {"stream", "done"}
    /\ get[g].storedName \in DOMAIN uploads
    /\ ~get[g].readError

(* g's Range header is 'bytes=<digits>-<digits>' *)
FromTo(g) ==
    /\ get[g].rangeHeader.present
    /\ get[g].rangeHeader.bytesPrefix
    /\ get[g].rangeHeader.rawStart.kind = "digits"
    /\ get[g].rangeHeader.rawEnd.kind = "digits"

(* C15: the end-to-end scenario at the model's scale (chunk size 2,    *)
(* file of 5 bytes for chunk size 10 and 25 bytes): the init answers   *)
(* totalChunks = 3; after chunks of 2, 2 and 1 bytes at indices 0, 1   *)
(* and 2, each sent after the answer to the one before, the third      *)
(* answers completed with an artifact of 5 bytes; a range request      *)
(* 'bytes=4-' (for 'bytes=20-') on that artifact is answered 206 with  *)
(* exactly 1 byte (for 5) and Content-Range 'bytes 4-4/5'.             *)
C15_EndToEnd ==
    LET size == MAX_FILE_SIZE
        first == 2 * DEFAULT_CHUNK_SIZE
    IN /\ (lastInit.status = 200 /\ lastInit.size = Num(size))
             => lastInit.totalChunks = 3
       /\ \A r \in Reqs :
             (/\ reqs[r].pc = "done" /\ reqs[r].status = 200
              /\ reqs[r].sessionRecord.size = size
              /\ reqs[r].index = 2)
             => /\ reqs[r].completed
                /\ \E f \in files :
                      /\ f.id = reqs[r].file
                      /\ f.size = size
                      /\ Len(uploads[f.storedName]) = size
       /\ \A g \in Gets :
             (/\ Serving(g) /\ get[g].ended
              /\ Len(Content(g)) = size
              /\ get[g].rangeHeader = Header(TRUE, Digits(first), Empty))
             => /\ get[g].status = 206
                /\ Len(get[g].body) = size - first
                /\ "Content-Range" \in DOMAIN get[g].headers
                /\ get[g].headers["Content-Range"] =
                      <<Num(first), Num(size - 1), size>>

(* C16: for a Range header 'bytes=a-b' with 0 <= a <= b <= size-1, the  *)
(* download and the range-capable preview answer 206 with Content-Range *)
(* 'bytes a-b/size' and Content-Length b-a+1, and the body is the bytes *)
(* a..b of the file: what has been written is a prefix of them, and all *)
(* of them once the response has ended (no read failing).               *)
C16_RangeServed ==
    \A g \in Gets :
        LET a == get[g].rangeHeader.rawStart.n
            b == get[g].rangeHeader.rawEnd.n
            size == Len(Content(g))
            window == SubSeq(Content(g), a + 1, b + 1)
        IN (Serving(g) /\ FromTo(g) /\ a <= b /\ b <= size - 1)
           => /\ get[g].status = 206
              /\ {"Content-Range", "Content-Length"}
                    \subseteq DOMAIN get[g].headers
              /\ get[g].headers["Content-Range"] = <<Num(a), Num(b), size>>
              /\ get[g].headers["Content-Length"] = Num(b - a + 1)
              /\ IsPrefix(get[g].body, window)
              /\ get[g].ended => get[g].body = window

(* A download of the bytes a..b, a > 0 and b > a, has ended *)
C16_Witness ==
    \E g \in Gets :
        /\ Serving(g) /\ FromTo(g) /\ get[g].ended
        /\ get[g].kind = "download"
        /\ get[g].rangeHeader.rawStart.n > 0
        /\ get[g].rangeHeader.rawEnd.n > get[g].rangeHeader.rawStart.n
        /\ get[g].rangeHeader.rawEnd.n <= Len(Content(g)) - 1
        /\ get[g].status = 206

(* g's Range header is absent, does not start with 'bytes=', or names *)
(* a first byte past the end of the file or past its last byte        *)
NoUsableRange(g) ==
    \/ ~get[g].rangeHeader.present
    \/ ~get[g].rangeHeader.bytesPrefix
    \/ /\ FromTo(g)
       /\ \/ get[g].rangeHeader.rawStart.n >= Len(Content(g))
          \/ get[g].rangeHeader.rawStart.n > get[g].rangeHeader.rawEnd.n

C18_ReadErrorEndsResponse ==
    [][\A g \in Gets :
          (/\ ~get[g].readError /\ get'[g].readError
           /\ get[g].body # << >>)
          => get'[g].ended
      ]_vars

(* C19: a download or preview request without a principal, for a row   *)
(* that is private when the handler looks it up, is answered 401 at     *)
(* once, with no byte of the file and no header set; and a response     *)
(* with status 401 never carries a byte or a header.                    *)
C19_PrivateNeedsPrincipal ==
    /\ [](\A g \in Gets :
             get[g].status = 401 =>
                 /\ get[g].pc = "done" /\ get[g].ended
                 /\ get[g].body = << >>
                 /\ DOMAIN get[g].headers = {})
    /\ [][\A g \in Gets :
             (/\ get[g].pc = "idle" /\ get'[g].pc # "idle"
              /\ ~get'[g].authed
              /\ \E f \in files : f.id = get'[g].fileId /\ ~f.isPublic)
             => /\ get'[g].status = 401
                /\ get'[g].pc = "done" /\ get'[g].ended
                /\ get'[g].body = << >>
                /\ DOMAIN get'[g].headers = {}
         ]_vars

(* A preview without a principal was refused for a row that is private *)
C19_Witness ==
    \E g \in Gets :
        /\ get[g].kind = "preview"
        /\ get[g].status = 401
        /\ ~get[g].authed
        /\ \E f \in files : f.id = get[g].fileId /\ ~f.isPublic

---------------------------------------------------------------------------
(* Validation of POST /api/upload/init *)

(* The declared size of the latest init is not finite or not positive *)
InvalidSizeAsWritten == lastInit.size.nan \/ lastInit.size.n <= 0

(* C20: an init whose size is not a finite number, is <= 0 or exceeds *)
(* MAX_FILE_SIZE is refused (400, or 413 for the limit): only a       *)
(* finite size in 1..MAX_FILE_SIZE is answered with a session; and a  *)
(* refused init leaves the session table and the chunk directories    *)
(* as they were.                                                      *)
C20_InitRejectsBadSize ==
    /\ [](/\ lastInit.status = 200 =>
                /\ ~lastInit.size.nan
                /\ lastInit.size.n > 0
                /\ lastInit.size.n <= MAX_FILE_SIZE
                /\ lastInit.totalChunks > 0
          /\ lastInit.status \in {400, 413} => lastInit.uploadId = NoId
          /\ (lastInit.status \in {200, 400, 413} /\ lastInit.hasName) =>
                /\ lastInit.status = 400 <=> InvalidSizeAsWritten
                /\ lastInit.status = 413 <=>
                      (~InvalidSizeAsWritten
                          /\ lastInit.size.n > MAX_FILE_SIZE))
    /\ [][(lastInit' # lastInit /\ lastInit'.status # 200)
             => UNCHANGED <<uploadSessions, chunkDirs, parts, nextUploadId>>
         ]_vars

(* An init with a size that is not a number, one with size 0 and one *)
(* past the limit can each be refused with nothing created; the      *)
(* state after the first of them                                     *)
C20_Witness ==
    /\ lastInit.status = 400
    /\ lastInit.hasName
    /\ lastInit.size = NaN
    /\ uploadSessions = << >>
    /\ chunkDirs = {}

---------------------------------------------------------------------------
(* The chunk count of a session *)

(* t chunks of c bytes are the fewest that hold s bytes *)
IsCeiling(t, s, c) == t >= 1 /\ (t - 1) * c < s /\ s <= t * c

(* C21: every session row has totalChunks = ceil(size / chunkSize),    *)
(* that is totalChunks >= 1 and (totalChunks-1)*chunkSize < size <=    *)
(* totalChunks*chunkSize; and an accepted init answers the chunkSize   *)
(* and totalChunks it recorded in the row it created, for the size it  *)
(* was sent.                                                           *)
C21_TotalChunksIsCeiling ==
    /\ [](\A id \in DOMAIN uploadSessions :
             IsCeiling(uploadSessions[id].totalChunks,
                       uploadSessions[id].size,
                       uploadSessions[id].chunkSize))
    /\ [][(lastInit' # lastInit /\ lastInit'.status = 200)
             => /\ lastInit'.uploadId \in DOMAIN uploadSessions'
                /\ lastInit'.uploadId \notin DOMAIN uploadSessions
                /\ LET row == uploadSessions'[lastInit'.uploadId]
                   IN /\ row.size = lastInit'.size.n
                      /\ row.chunkSize = lastInit'.chunkSize
                      /\ row.totalChunks = lastInit'.totalChunks
                      /\ IsCeiling(lastInit'.totalChunks,
                                   lastInit'.size.n, lastInit'.chunkSize)
         ]_vars

(* An init for a size that is not a multiple of the chunk size has been *)
(* accepted and its row is there                                        *)
C21_Witness ==
    /\ lastInit.status = 200
    /\ lastInit.uploadId \in DOMAIN uploadSessions
    /\ lastInit.size.n = MAX_FILE_SIZE
    /\ lastInit.totalChunks = 3
    /\ uploadSessions[lastInit.uploadId].totalChunks = 3

---------------------------------------------------------------------------
(* The assembly loop *)

(* C22: finalize takes the parts in the order 0, 1, .., totalChunks-1, *)
(* one per turn, and looks for each before reading it: a turn that     *)
(* finds its part missing answers 500 and creates no artifact row, a   *)
(* request is past the loop only after totalChunks turns, and a        *)
(* request that answered 500 has created no artifact row.              *)
C22_AssemblesInOrder ==
    /\ [](\A r \in Reqs :
             /\ reqs[r].pc = "assemble" =>
                   reqs[r].i \in 0..(reqs[r].sessionRecord.totalChunks - 1)
             /\ reqs[r].pc \in {"readdir", "unlink", "create", "delete"} =>
                   reqs[r].i = reqs[r].sessionRecord.totalChunks
             /\ reqs[r].status = 500 => reqs[r].file = 0)
    /\ [][\A r \in Reqs :
             (reqs[r].pc = "assemble" /\ reqs'[r] # reqs[r]) =>
                 IF <<reqs[r].uploadId, reqs[r].i>> \in DOMAIN parts
                   THEN /\ reqs'[r].i = reqs[r].i + 1
                        /\ reqs'[r].pc \in {"assemble", "readdir"}
                 ELSE /\ reqs'[r].pc = "done"
                      /\ reqs'[r].status = 500
                      /\ reqs'[r].file = 0
                      /\ files' = files
         ]_vars

(* The only request for the last index has answered 500 with a part of *)
(* its session missing, its own part stored, the session row there and *)
(* no failure injected: it failed in the loop, and there is no         *)
(* artifact row                                                        *)
C22_Witness ==
    \E r \in Reqs :
        /\ LastIndex(r) /\ reqs[r].pc = "done" /\ reqs[r].status = 500
        /\ \A q \in Reqs \ {r} : ~LastIndex(q)
        /\ faults = 0 /\ files = {}
        /\ reqs[r].uploadId \in DOMAIN uploadSessions
        /\ reqs[r].sessionRecord.storedName \in DOMAIN uploads
        /\ <<reqs[r].uploadId, reqs[r].index>> \in DOMAIN parts
        /\ \E k \in 0..(reqs[r].sessionRecord.totalChunks - 1) :
              <<reqs[r].uploadId, k>> \notin DOMAIN parts

---------------------------------------------------------------------------
(* Cleanup after the assembly *)

(* C23: when a finalizing request deletes the parts of its session, and *)
(* when it deletes the session row, the final file is there and holds   *)
(* all the bytes the request's write stream wrote: nothing is deleted   *)
(* before the final file is complete.                                   *)
C23_CleanupAfterWrite ==
    [][\A r \in Reqs :
          (\/ reqs[r].pc = "unlink" /\ reqs'[r].pc = "create"
                 /\ parts' # parts
           \/ reqs[r].pc = "delete" /\ reqs'[r].pc = "done"
                 /\ uploadSessions' # uploadSessions)
          => /\ reqs[r].sessionRecord.storedName \in DOMAIN uploads
             /\ Len(uploads[reqs[r].sessionRecord.storedName]) = reqs[r].pos
             /\ reqs[r].i = reqs[r].sessionRecord.totalChunks
      ]_vars

---------------------------------------------------------------------------
(* The received count under concurrency *)

(* r has got past its uploadSession.update *)
PastUpdate(r) ==
    /\ Accepted(r)
    /\ \/ reqs[r].pc \in {"open", "assemble", "readdir", "unlink", "create",
                           "delete"}
       \/ reqs[r].pc = "done" /\ reqs[r].status = 200

(* C24: while the requests accepted for a session run, in any          *)
(* interleaving, and none of them has failed, the session's            *)
(* uploadedChunks is the number of them that have got past their       *)
(* update: k requests at k different indices that all succeed raise it *)
(* by exactly k, and each non-final answer carries a count between 1   *)
(* and the number of requests accepted.                                *)
C24_NoLostUpdate ==
    \A id \in DOMAIN uploadSessions :
        (\A r \in AcceptedFor(id) : reqs[r].status # 500)
        => /\ uploadSessions[id].uploadedChunks =
                 Cardinality({r \in AcceptedFor(id) : PastUpdate(r)})
           /\ \A r \in AcceptedFor(id) :
                 (reqs[r].pc = "done" /\ ~reqs[r].completed) =>
                     reqs[r].uploadedChunks \in
                         1..Cardinality(AcceptedFor(id))

(* Three requests at three different indices overlapped: the first to *)
(* arrive is still in flight past its update, the two that arrived    *)
(* after it have answered, and the count is 3                         *)
C24_Witness ==
    \E id \in DOMAIN uploadSessions, r \in Reqs :
        /\ Cardinality(AcceptedFor(id)) = 3
        /\ uploadSessions[id].uploadedChunks = 3
        /\ r \in AcceptedFor(id) /\ reqs[r].pc = "open"
        /\ \A q \in AcceptedFor(id) \ {r} :
              /\ q > r
              /\ reqs[q].pc = "done" /\ reqs[q].status = 200
        /\ \A q1, q2 \in AcceptedFor(id) :
              q1 # q2 => reqs[q1].index # reqs[q2].index

---------------------------------------------------------------------------
(* Resubmission of an index *)

(* The requests that submitted index for session id and got as far as *)
(* writing the part                                                   *)
SubmittedAt(id, index) ==
    {r \in AcceptedFor(id) : reqs[r].index = index}

(* C25: a stored part that no request is in the middle of writing    *)
(* holds exactly the bytes of one submission of its index (the most  *)
(* recent one to write): a resubmission overwrites, it neither       *)
(* appends to nor merges with the bytes stored before.               *)
C25_PartIsOneSubmission ==
    \A k \in DOMAIN parts :
        (\A r \in SubmittedAt(k[1], k[2]) : reqs[r].pc # "write")
        => \E r \in SubmittedAt(k[1], k[2]) : parts[k] = reqs[r].buffer

---------------------------------------------------------------------------
(* Open-ended ranges *)

(* C26: for a header 'bytes=a-' (empty end token) or 'bytes=a-b' with *)
(* b >= size, and 0 <= a <= size-1, parseRange returns start = a and  *)
(* end = size-1.                                                      *)
C26_OpenEndClamped ==
    (/\ probe.called
     /\ probe.rangeHeader.present /\ probe.rangeHeader.bytesPrefix
     /\ probe.rangeHeader.rawStart.kind = "digits"
     /\ probe.rangeHeader.rawStart.n <= probe.size - 1
     /\ \/ probe.rangeHeader.rawEnd = Empty
        \/ /\ probe.rangeHeader.rawEnd.kind = "digits"
           /\ probe.rangeHeader.rawEnd.n >= probe.size)
    => /\ probe.result.range
       /\ probe.result.start = Num(probe.rangeHeader.rawStart.n)
       /\ probe.result.end = Num(probe.size - 1)

---------------------------------------------------------------------------
(* Length of the stored parts *)

(* The longest part the session's row allows at index: chunkSize, and *)
(* what is left of size at the last index                             *)
PartLimit(row, index) ==
    IF index = row.totalChunks - 1
      THEN row.size - row.chunkSize * (row.totalChunks - 1)
    ELSE row.chunkSize

(* C27: every stored part of a session is at most chunkSize bytes long, *)
(* and the part at index totalChunks-1 at most                          *)
(* size - chunkSize * (totalChunks-1) bytes; a longer payload is not    *)
(* stored.                                                              *)
C27_PartWithinChunkSize ==
    \A k \in DOMAIN parts :
        k[1] \in DOMAIN uploadSessions =>
            Len(parts[k]) <= PartLimit(uploadSessions[k[1]], k[2])

---------------------------------------------------------------------------
(* Rejected submissions *)

(* The step in which request r arrives and is answered 400, 404 or 413 *)
RejectedStep(r) ==
    /\ reqs[r].pc = "idle"
    /\ reqs'[r].pc = "done"
    /\ reqs'[r].status \in {400, 404, 413}

(* C28: a chunk request answered 400 (uploadId or payload missing,      *)
(* invalid index or total, metadata mismatch, size mismatch), 404       *)
(* (session not found) or 413 (payload too large) leaves the session    *)
(* rows with their counts, the stored parts, the chunk directories, the *)
(* final files and the file rows as they were.                          *)
C28_RejectedChangesNothing ==
    [][\A r \in Reqs :
          RejectedStep(r) =>
              UNCHANGED <<uploadSessions, parts, chunkDirs, uploads, files>>
      ]_vars

(* A request rejected at the size limit or against the session row,    *)
(* in a state where an accepted request's part is stored and counted:  *)
(* the part and the count are as the accepted request left them        *)
C28_Witness ==
    \E q, r \in Reqs :
        /\ q < r
        /\ Accepted(q) /\ reqs[q].pc = "done" /\ reqs[q].status = 200
        /\ ~reqs[q].completed
        /\ reqs[q].uploadId \in DOMAIN uploadSessions
        /\ uploadSessions[reqs[q].uploadId].uploadedChunks = 1
        /\ <<reqs[q].uploadId, reqs[q].index>> \in DOMAIN parts
        /\ parts[<<reqs[q].uploadId, reqs[q].index>>] = reqs[q].buffer
        /\ reqs[r].pc = "done"
        /\ reqs[r].status \in {400, 413}
        /\ reqs[r].error \in {"Chunk metadata mismatch.",
                              "Size mismatch for upload session.",
                              "File too large"}

---------------------------------------------------------------------------
(* The recorded size of an artifact *)

(* C29: for every file row created by the chunked upload, the size in *)
(* the row is the byte length of the final file under its storedName, *)
(* and so never more than MAX_FILE_SIZE.                              *)
C29_RecordedSizeIsActual ==
    \A f \in files :
        /\ f.storedName \in DOMAIN uploads
        /\ f.size = Len(uploads[f.storedName])
        /\ Len(uploads[f.storedName]) <= MAX_FILE_SIZE

---------------------------------------------------------------------------
(* Ownership of the chunk storage *)

(* C30: every chunk directory and every stored part on disk belongs to *)
(* a session whose row exists: once a session has been finalized and   *)
(* its row deleted, nothing is left of its chunk storage and nothing   *)
(* is created again for its id, whatever the interleaving of the       *)
(* requests for that session.                                          *)
C30_ChunkStorageHasSession ==
    /\ \A id \in chunkDirs : id \in DOMAIN uploadSessions
    /\ \A k \in DOMAIN parts : k[1] \in DOMAIN uploadSessions

---------------------------------------------------------------------------
(* Sessions side by side *)

(* The step leaves what belongs to the live session id as it was: its *)
(* row with its count, its chunk directory, its parts and the file at *)
(* UPLOAD_DIR/<storedName>                                            *)
Untouched(id) ==
    /\ id \in DOMAIN uploadSessions'
    /\ uploadSessions'[id] = uploadSessions[id]
    /\ (id \in chunkDirs') <=> (id \in chunkDirs)
    /\ \A index \in ChunkIndexes :
          /\ (<<id, index>> \in DOMAIN parts') <=>
                 (<<id, index>> \in DOMAIN parts)
          /\ <<id, index>> \in DOMAIN parts =>
                 parts'[<<id, index>>] = parts[<<id, index>>]
    /\ LET storedName == uploadSessions[id].storedName
       IN /\ (storedName \in DOMAIN uploads') <=>
                 (storedName \in DOMAIN uploads)
          /\ storedName \in DOMAIN uploads =>
                 uploads'[storedName] = uploads[storedName]

(* Live sessions differ in id (and so in chunk directory) and in *)
(* storedName                                                    *)
DistinctSessions ==
    \A id1, id2 \in DOMAIN uploadSessions :
        id1 # id2 =>
            /\ uploadSessions[id1].id # uploadSessions[id2].id
            /\ uploadSessions[id1].storedName # uploadSessions[id2].storedName

(* Every step of a chunk request leaves the other live sessions untouched *)
OthersUntouched ==
    \A r \in Reqs :
        reqs'[r] # reqs[r] =>
            \A id \in DOMAIN uploadSessions \ {reqs'[r].uploadId} :
                Untouched(id)

---------------------------------------------------------------------------
(* Termination of a chunk request *)

(* C32: every chunk request that passed validation eventually answers, *)
(* with success or with an error, when every file system and database  *)
(* operation eventually completes or fails; a failure of the write     *)
(* stream of the final file during the assembly loop ends in an error  *)
(* response too.                                                       *)
C32_EveryRequestAnswers ==
    \A r \in Reqs : (reqs[r].pc = "mkdir") ~> (reqs[r].pc = "done")

---------------------------------------------------------------------------
(* The upload of startChunkedUpload *)

(* Nothing is left of session id but the final file and its row *)
SessionConsumed(id, storedName) ==
    /\ id \notin DOMAIN uploadSessions
    /\ id \notin chunkDirs
    /\ \A k \in DOMAIN parts : k[1] # id
    /\ storedName \in DOMAIN uploads
    /\ Cardinality(files) = 1
    /\ \A f \in files : f.storedName = storedName

(* C33: when one client sends the chunks of a session in index order, *)
(* each after the answer to the one before, and nothing fails, every  *)
(* request before the last answers completed:false with the count     *)
(* index+1 (1, 2, ...), the last answers completed:true with the file *)
(* row, and from then on the session row, its parts and its directory *)
(* are gone and there is exactly one file row; while the session      *)
(* lives its count is the number of chunks taken in.                  *)
C33_SequentialUpload ==
    /\ \A r \in Reqs :
          reqs[r].pc = "done" =>
              /\ reqs[r].status = 200
              /\ reqs[r].index = r - 1
              /\ IF LastIndex(r)
                   THEN /\ reqs[r].completed
                        /\ \E f \in files : f.id = reqs[r].file
                        /\ SessionConsumed(reqs[r].uploadId,
                                           reqs[r].sessionRecord.storedName)
                 ELSE /\ ~reqs[r].completed
                      /\ reqs[r].uploadedChunks = reqs[r].index + 1
    /\ \A id \in DOMAIN uploadSessions :
          uploadSessions[id].uploadedChunks =
              Cardinality({r \in AcceptedFor(id) : PastUpdate(r)})

(* A three-chunk upload has run to its end: 0 and 1 answered *)
(* completed:false with counts 1 and 2, 2 answered completed  *)
C33_Witness ==
    /\ \A r \in Reqs : reqs[r].pc = "done" /\ reqs[r].status = 200
    /\ \E r \in Reqs :
          /\ reqs[r].index = 2 /\ LastIndex(r) /\ reqs[r].completed
          /\ SessionConsumed(reqs[r].uploadId,
                             reqs[r].sessionRecord.storedName)
    /\ \E r \in Reqs : reqs[r].index = 0 /\ reqs[r].uploadedChunks = 1
    /\ \E r \in Reqs : reqs[r].index = 1 /\ reqs[r].uploadedChunks = 2

====
